---- MODULE Spec2Model ----
(***************************************************************************)
(* Model of pkg/mosconfig/storage.go: the AtomfsStorage backend.           *)
(*                                                                         *)
(* The kernel mount table and the directory tree are the state.  Every    *)
(* method of AtomfsStorage is an operator from a world (mounts, dirs, the  *)
(* temp-name counter and the log of the OS-level operations made so far)   *)
(* to the world it leaves plus the values it returns; the actions apply    *)
(* the operators.  The results of the operating system and of the          *)
(* mounting engine are inputs: each fallible operation fails when the      *)
(* failure record of the call says so.                                     *)
(***************************************************************************)
EXTENDS Naturals, Sequences, FiniteSets, TLC

VARIABLES mounts, dirs, held, last, calls, made

vars == <<mounts, dirs, held, last, calls, made>>

-----------------------------------------------------------------------------
(* Bounds of the model.                                                    *)

\* Mount-table entries the actions may add up to.
MaxMounts == 3
\* Temp directories under the scratch root at one time.
MaxTmp == 6
\* Mount-table entries and temp directories when callers mount for
\* themselves.
MaxDirectMounts == 2
MaxDirectTmp == 3
\* Cleanup actions callers keep at one time.
MaxHeld == 1
\* Entries of a mount table the lookups are tried on.
MaxEntries == 2
\* SetupTarget calls each of the concurrent callers makes.
MaxRaceCalls == 2

-----------------------------------------------------------------------------
(* Paths are sequences of components; errors are chains of messages, the   *)
(* innermost cause last, the empty chain being nil.                        *)

Nil == <<>>

Wrap(msg, err) == <<msg>> \o err

Join(a, b) == a \o b

Base(p) == IF p = <<>> THEN "." ELSE p[Len(p)]

Prefixes(p) == {SubSeq(p, 1, n) : n \in 1..Len(p)}

RootDir == <<"root">>

zotPath == <<"zot">>

scratchPath == <<"scratch">>

metadataPath == Join(scratchPath, <<"atomfs">>)

\* A faulty TargetMountdir: the directory is named by the full name.
TargetMountdirOfFullname(w, t) ==
    [w |-> w, path |-> Join(scratchPath, <<"roots", t.Fullname>>), err |-> Nil]

\* TargetMountdir returns the path and a nil error; w is the world it is
\* called in and leaves.
TargetMountdir(w, t) ==
    [w |-> w, path |-> Join(scratchPath, <<"roots", t.Name>>), err |-> Nil]

\* <RootDir>/mnt/atom/<name>, the path MountedByHash inspects for fs-only.
AtomDir(name) == Join(RootDir, <<"mnt", "atom", name>>)

-----------------------------------------------------------------------------
(* Targets, and the images the engine finds for them.                      *)

Names == {"svc1", "ctr1"}

Target(name, stype, version) ==
    [Name |-> name, ServiceType |-> stype,
     Fullname |-> "repo/" \o name, Version |-> version]

Targets ==
    {Target("svc1", "fs-only", "v1"), Target("svc1", "fs-only", "v2"),
     Target("svc1", "hostfs", "v1"), Target("svc1", "vm", "v1"),
     Target("ctr1", "container", "v1")}

\* The targets callers mount themselves, at <RootDir>/mnt/atom/<name>.
DirectTargets == {Target("svc1", "fs-only", "v2")}

\* The targets of the lifecycle calls.
LifecycleTargets ==
    {Target("svc1", "fs-only", "v1"), Target("svc1", "fs-only", "v2"),
     Target("svc1", "vm", "v1"), Target("ctr1", "container", "v1")}

\* The layer digests of an image, the first being the one atomix calls the
\* hash of the mount.
Digests(t) ==
    IF t.Version = "v1" THEN <<"abc123">> ELSE <<"def456", "abc123">>

\* The directories where the engine exposes the layers of a molecule.
AtomDirs(t) ==
    [i \in 1..Len(Digests(t)) |-> Join(metadataPath, <<"mounts", Digests(t)[i]>>)]

-----------------------------------------------------------------------------
(* The world and the OS-level operations on it.                            *)

\* taken: the temp names cleanup actions still refer to.
World(m, d, taken) == [mounts |-> m, dirs |-> d, taken |-> taken, log |-> <<>>]

Event(op, path, ok, out) == [op |-> op, path |-> path, ok |-> ok, out |-> out]

Logged(w, op, path, ok) == [w EXCEPT !.log = Append(@, Event(op, path, ok, <<>>))]

\* The mount table is the set of its entries.  The code reads the table
\* for the entries at one path only, and the kernel keeps those in the order
\* they were mounted: Level is the place of an entry in the stack of mounts
\* at its path, 1 being the oldest and first in the table.
MountsAt(ms, p) == {m \in ms : m.Target = p}

IsMounted(ms, p) == MountsAt(ms, p) # {}

TopMount(ms, p) == CHOOSE m \in MountsAt(ms, p) : m.Level = Cardinality(MountsAt(ms, p))

FirstAt(ms, p) == CHOOSE m \in MountsAt(ms, p) : m.Level = 1

OverlayMount(target, lowers, upper, work) ==
    [Target |-> target, FSType |-> "overlay",
     Lower |-> lowers, Upper |-> upper, Work |-> work, Level |-> 1]

\* The table with m mounted on top of what is at its path.
Mounted(ms, m) ==
    ms \cup {[m EXCEPT !.Level = Cardinality(MountsAt(ms, m.Target)) + 1]}

\* The table with the topmost mount taken off p.
Unmounted(ms, p) == ms \ {TopMount(ms, p)}

\* EnsureDir: mkdir -p.
EnsureDir(w, p, fail) ==
    IF fail
    THEN [w |-> Logged(w, "EnsureDir", p, FALSE), err |-> <<"mkdir">>]
    ELSE [w |-> [Logged(w, "EnsureDir", p, TRUE) EXCEPT !.dirs = @ \cup Prefixes(p)],
          err |-> Nil]

\* IsMountpoint: whether the mount table has an entry at p, or an error
\* when the table cannot be read.
IsMountpoint(w, p, fail) ==
    IF fail
    THEN [w |-> Logged(w, "IsMountpoint", p, FALSE), mounted |-> FALSE,
          err |-> <<"open">>]
    ELSE [w |-> Logged(w, "IsMountpoint", p, TRUE), mounted |-> IsMounted(w.mounts, p),
          err |-> Nil]

TempName(pattern, k) == Join(scratchPath, <<pattern \o ToString(k)>>)

\* The paths the entries of the mount table name.
MountRefs(ms) == UNION {{m.Target, m.Upper, m.Work} \cup {m.Lower[i] : i \in 1..Len(m.Lower)} : m \in ms}

\* os.MkdirTemp(scratchPath, pattern): a new directory, the pattern completed
\* by a random suffix.  The suffix is taken never to repeat a name that
\* exists or that a mount or a cleanup action still refers to; the suffixes
\* stand for one another, so the first free one is taken.
MkdirTemp(w, pattern, fail) ==
    LET InUse == w.dirs \cup w.taken \cup MountRefs(w.mounts)
        Free(k) == TempName(pattern, k) \notin InUse
        k == CHOOSE i \in 1..(Cardinality(InUse) + 1) :
                 Free(i) /\ \A j \in 1..(i - 1) : ~Free(j)
        path == TempName(pattern, k)
    IN  IF fail
        THEN [w |-> Logged(w, "MkdirTemp", <<pattern>>, FALSE), path |-> <<>>,
              err |-> <<"mkdirtemp">>]
        ELSE [w |-> [Logged(w, "MkdirTemp", path, TRUE)
                       EXCEPT !.dirs = @ \cup {path}],
              path |-> path, err |-> Nil]

\* os.Remove and os.RemoveAll of a scratch directory: a directory something
\* is mounted on is busy and stays.
Remove(w, op, p) ==
    IF p \in w.dirs /\ ~IsMounted(w.mounts, p)
    THEN [Logged(w, op, p, TRUE) EXCEPT !.dirs = @ \ {p}]
    ELSE Logged(w, op, p, FALSE)

\* unix.Unmount(p, 0): takes the topmost mount off p.
UnixUnmount(w, p, fail) ==
    IF fail \/ ~IsMounted(w.mounts, p)
    THEN [w |-> Logged(w, "unix.Unmount", p, FALSE), err |-> <<"umount">>]
    ELSE [w |-> [Logged(w, "unix.Unmount", p, TRUE)
                   EXCEPT !.mounts = Unmounted(@, p)],
          err |-> Nil]

\* The table without the mounts at those of the directories lowers that no
\* overlay of the table has as a lower directory.
UnusedUnmounted(ms, lowers) ==
    LET used == UNION {{o.Lower[i] : i \in 1..Len(o.Lower)} :
                          o \in {x \in ms : x.FSType = "overlay"}}
        unused == {lowers[i] : i \in 1..Len(lowers)} \ used
    IN  ms \ {TopMount(ms, d) : d \in {u \in unused : IsMounted(ms, u)}}

\* A faulty engine: its unmount sweeps the unused lower directories
\* whatever sweep says.
AtomfsUmountSweepsAlways(w, p, fail, sweep) ==
    LET over == {m \in MountsAt(w.mounts, p) : m.FSType = "overlay"}
        first == CHOOSE m \in over : \A o \in over : m.Level <= o.Level
    IN  IF fail \/ over = {}
        THEN [w |-> Logged(w, "atomfs.Umount", p, FALSE), err |-> <<"umount">>]
        ELSE [w |-> [Logged(w, "atomfs.Umount", p, TRUE)
                       EXCEPT !.mounts = UnusedUnmounted(Unmounted(w.mounts, p),
                                                         first.Lower)],
              err |-> Nil]

\* atomfs.Umount(p): the engine's unmount of an overlay at p.  Whether the
\* engine then unmounts the lower directories of that overlay which no
\* other overlay uses is the engine's matter: sweep says whether it does.
AtomfsUmount(w, p, fail, sweep) ==
    LET over == {m \in MountsAt(w.mounts, p) : m.FSType = "overlay"}
        first == CHOOSE m \in over : \A o \in over : m.Level <= o.Level
        left == Unmounted(w.mounts, p)
    IN  IF fail \/ over = {}
        THEN [w |-> Logged(w, "atomfs.Umount", p, FALSE), err |-> <<"umount">>]
        ELSE [w |-> [Logged(w, "atomfs.Umount", p, TRUE)
                       EXCEPT !.mounts = IF sweep
                                         THEN UnusedUnmounted(left, first.Lower)
                                         ELSE left],
              err |-> Nil]

\* atomfs.BuildMoleculeFromOCI(opts): the molecule of the image of t.
BuildMoleculeFromOCI(w, t, fail) ==
    IF fail
    THEN [w |-> Logged(w, "BuildMolecule", Join(zotPath, <<t.Fullname>>), FALSE),
          mol |-> <<>>, err |-> <<"oci">>]
    ELSE [w |-> Logged(w, "BuildMolecule", Join(zotPath, <<t.Fullname>>), TRUE),
          mol |-> AtomDirs(t), err |-> Nil]

\* mol.Mount(p): the molecule mounted at p, or nothing mounted.
MolMount(w, mol, p, fail) ==
    IF fail \/ p \notin w.dirs
    THEN [w |-> Logged(w, "mol.Mount", p, FALSE), err |-> <<"mount">>]
    ELSE [w |-> [Logged(w, "mol.Mount", p, TRUE)
                   EXCEPT !.mounts = Mounted(@, OverlayMount(p, mol, <<>>, <<>>))],
          err |-> Nil]

\* unix.Mount("overlayfs", p, "overlay", 0, "lowerdir=..,upperdir=..,workdir=..").
UnixMountOverlay(w, p, ro, upper, work, fail) ==
    IF fail \/ p \notin w.dirs
    THEN [w |-> Logged(w, "unix.Mount", p, FALSE), err |-> <<"mount">>]
    ELSE [w |-> [Logged(w, "unix.Mount", p, TRUE)
                   EXCEPT !.mounts = Mounted(@, OverlayMount(p, <<ro>>, upper, work))],
          err |-> Nil]

-----------------------------------------------------------------------------
(* Cleanup actions: the closures Mount and MountWriteable return.          *)

Cleanup(kind, mp, ro, work, upper) ==
    [kind |-> kind, mp |-> mp, ro |-> ro, work |-> work, upper |-> upper]

\* func() {}
NoopCleanup == Cleanup("noop", <<>>, <<>>, <<>>, <<>>)

\* a nil func()
NilCleanup == Cleanup("nil", <<>>, <<>>, <<>>, <<>>)

\* Mount's cleanup: atomfs.Umount(mountpoint), a failure only logged.
UmountCleanup(mp) == Cleanup("umount", mp, <<>>, <<>>, <<>>)

\* MountWriteable's cleanup over its four resources.
WriteableCleanup(mp, ro, work, upper) == Cleanup("writeable", mp, ro, work, upper)

\* The failure record of a call: the forward step that fails (the steps
\* after it are not reached), whether the unmounts of an unwind or of a
\* cleanup fail, and whether the engine's unmount sweeps the lower
\* directories left unused.
ForwardSteps ==
    {"none", "isMountpoint", "umountOld", "ensureMp", "mkRo", "ensure", "build", "molMount",
     "mkWork", "mkUpper", "overlay"}

Failures ==
    [at : ForwardSteps, umountRo : BOOLEAN, umountOverlay : BOOLEAN, sweep : BOOLEAN]

RunUmountCleanup(w, c, f) == AtomfsUmount(w, c.mp, f.umountRo, f.sweep).w

\* A faulty cleanup: it removes the readonly dir before it unmounts it.
RunWriteableCleanupRemovesFirst(w, c, f) ==
    LET w1 == UnixUnmount(w, c.mp, f.umountOverlay).w
        w2 == Remove(w1, "os.Remove", c.ro)
        w3 == RunUmountCleanup(w2, UmountCleanup(c.ro), f)
        w4 == Remove(w3, "os.RemoveAll", c.work)
    IN  Remove(w4, "os.RemoveAll", c.upper)

RunWriteableCleanup(w, c, f) ==
    LET w1 == UnixUnmount(w, c.mp, f.umountOverlay).w
        w2 == RunUmountCleanup(w1, UmountCleanup(c.ro), f)
        w3 == Remove(w2, "os.RemoveAll", c.work)
        w4 == Remove(w3, "os.RemoveAll", c.upper)
    IN  Remove(w4, "os.Remove", c.ro)

RunCleanup(w, c, f) ==
    CASE c.kind = "umount" -> RunUmountCleanup(w, c, f)
      [] c.kind = "writeable" -> RunWriteableCleanup(w, c, f)
      [] OTHER -> w

-----------------------------------------------------------------------------
(* AtomfsStorage.Mount                                                     *)

\* A faulty Mount: when the engine's mount fails it returns a no-op.
MountForgetsCleanup(w, t, mountpoint, f) ==
    LET e == EnsureDir(Logged(w, "Mount", mountpoint, TRUE), mountpoint, f.at = "ensure")
        b == BuildMoleculeFromOCI(e.w, t, f.at = "build")
        m == MolMount(b.w, b.mol, mountpoint, f.at = "molMount")
    IN  IF e.err # Nil
        THEN [w |-> e.w, cleanup |-> NoopCleanup,
              err |-> Wrap("Failed creating mountpoint", e.err)]
        ELSE IF b.err # Nil
        THEN [w |-> b.w, cleanup |-> NoopCleanup,
              err |-> Wrap("Failed building atomfs molecule", b.err)]
        ELSE IF m.err # Nil
        THEN [w |-> m.w, cleanup |-> NoopCleanup,
              err |-> Wrap("Failed mounting molecule", m.err)]
        ELSE [w |-> m.w, cleanup |-> UmountCleanup(mountpoint), err |-> Nil]

Mount(w, t, mountpoint, f) ==
    LET e == EnsureDir(Logged(w, "Mount", mountpoint, TRUE), mountpoint, f.at = "ensure")
        b == BuildMoleculeFromOCI(e.w, t, f.at = "build")
        cleanup == UmountCleanup(mountpoint)
        m == MolMount(b.w, b.mol, mountpoint, f.at = "molMount")
    IN  IF e.err # Nil
        THEN [w |-> e.w, cleanup |-> NoopCleanup,
              err |-> Wrap("Failed creating mountpoint", e.err)]
        ELSE IF b.err # Nil
        THEN [w |-> b.w, cleanup |-> NoopCleanup,
              err |-> Wrap("Failed building atomfs molecule", b.err)]
        ELSE IF m.err # Nil
        THEN [w |-> m.w, cleanup |-> cleanup,
              err |-> Wrap("Failed mounting molecule", m.err)]
        ELSE [w |-> m.w, cleanup |-> cleanup, err |-> Nil]

-----------------------------------------------------------------------------
(* AtomfsStorage.MountWriteable                                            *)

\* The unwinding of MountWriteable when a step fails, after the read-only
\* mount (UnwindReadonly), the workdir, the upperdir and the overlay mount.
UnwindReadonlyKeepsDir(w, ropath) == w

UnwindReadonly(w, ropath) == Remove(w, "os.Remove", ropath)

UnwindWorkdir(w, roCleanup, ropath, f) ==
    Remove(RunCleanup(w, roCleanup, f), "os.Remove", ropath)

\* A faulty unwinding: after the upperdir failed it forgets the workdir.
UnwindUpperdirKeepsWorkdir(w, roCleanup, ropath, workdir, f) ==
    Remove(RunCleanup(w, roCleanup, f), "os.Remove", ropath)

UnwindUpperdir(w, roCleanup, ropath, workdir, f) ==
    Remove(Remove(RunCleanup(w, roCleanup, f), "os.Remove", ropath),
           "os.RemoveAll", workdir)

UnwindOverlay(w, roCleanup, ropath, workdir, upperdir, f) ==
    Remove(Remove(Remove(RunCleanup(w, roCleanup, f), "os.RemoveAll", workdir),
                  "os.RemoveAll", upperdir),
           "os.Remove", ropath)

MountWriteable(w, t, mountpoint, f) ==
    LET ro == MkdirTemp(Logged(w, "MountWriteable", mountpoint, TRUE),
                        t.Name \o "-scratch-readonly-", f.at = "mkRo")
        ropath == ro.path
        m == Mount(ro.w, t, ropath, f)
        roCleanup == m.cleanup
        wk == MkdirTemp(m.w, t.Name \o "-scratch-workdir-", f.at = "mkWork")
        workdir == wk.path
        up == MkdirTemp(wk.w, t.Name \o "-scratch-upperdir-", f.at = "mkUpper")
        upperdir == up.path
        ov == UnixMountOverlay(up.w, mountpoint, ropath, upperdir, workdir,
                               f.at = "overlay")
    IN  IF ro.err # Nil
        THEN [w |-> ro.w, cleanup |-> NoopCleanup,
              err |-> Wrap("Failed creating readonly mountpoint", ro.err)]
        ELSE IF m.err # Nil
        THEN [w |-> UnwindReadonly(m.w, ropath), cleanup |-> NoopCleanup,
              err |-> Wrap("Failed creating readonly mount", m.err)]
        ELSE IF wk.err # Nil
        THEN [w |-> UnwindWorkdir(wk.w, roCleanup, ropath, f),
              cleanup |-> NoopCleanup,
              err |-> Wrap("Failed creating workdir", wk.err)]
        ELSE IF up.err # Nil
        THEN [w |-> UnwindUpperdir(up.w, roCleanup, ropath, workdir, f),
              cleanup |-> NoopCleanup,
              err |-> Wrap("Failed creating upperdir", up.err)]
        ELSE IF ov.err # Nil
        THEN [w |-> UnwindOverlay(ov.w, roCleanup, ropath, workdir, upperdir, f),
              cleanup |-> NilCleanup,
              err |-> ov.err]
        ELSE [w |-> ov.w,
              cleanup |-> WriteableCleanup(mountpoint, ropath, workdir, upperdir),
              err |-> Nil]

-----------------------------------------------------------------------------
(* AtomfsStorage.SetupTarget and TearDownTarget                            *)

\* A faulty replacement: what is mounted at the mountdir stays.
UnmountStaleKeeps(w, mp, mounted, f) == [w |-> w, err |-> Nil]

\* A faulty replacement: the error of the unmount is dropped.
UnmountStaleSwallows(w, mp, mounted, f) ==
    IF mounted
    THEN [w |-> AtomfsUmount(w, mp, f.at = "umountOld", f.sweep).w, err |-> Nil]
    ELSE [w |-> w, err |-> Nil]

\* SetupTarget's replacement of what is mounted at the mountdir.
UnmountStale(w, mp, mounted, f) ==
    IF mounted
    THEN AtomfsUmount(w, mp, f.at = "umountOld", f.sweep)
    ELSE [w |-> w, err |-> Nil]

\* A faulty choice: read-only for fs-only, writable for all the rest.
MountByServiceTypeFsOnly(w, t, mp, f) ==
    IF t.ServiceType = "fs-only"
    THEN Mount(w, t, mp, f)
    ELSE MountWriteable(w, t, mp, f)

\* SetupTarget's choice between the writable and the read-only mount.
MountByServiceType(w, t, mp, f) ==
    IF t.ServiceType = "container"
    THEN MountWriteable(w, t, mp, f)
    ELSE Mount(w, t, mp, f)

SetupTarget(w, t, f) ==
    LET mp == Join(scratchPath, <<"roots", t.Name>>)
        q == IsMountpoint(w, mp, f.at = "isMountpoint")
        u == UnmountStale(q.w, mp, q.mounted, f)
        e == EnsureDir(u.w, mp, f.at = "ensureMp")
        r == MountByServiceType(e.w, t, mp, f)
    IN  IF q.err # Nil
        THEN [w |-> q.w, err |-> Wrap("Failed checking whether mounted", q.err)]
        ELSE IF u.err # Nil
        THEN [w |-> u.w, err |-> u.err]
        ELSE IF e.err # Nil
        THEN [w |-> e.w, err |-> Wrap("Failed creating mountpoint", e.err)]
        ELSE IF r.err # Nil
        THEN [w |-> r.w, err |-> Wrap("Failed mounting", r.err)]
        ELSE [w |-> r.w, err |-> Nil]

\* A faulty teardown: it unmounts whether or not the mountdir is mounted.
TearDownTargetUnmountsAnyway(w, name, f) ==
    LET mp == Join(scratchPath, <<"roots", name>>)
        q == IsMountpoint(w, mp, f.at = "isMountpoint")
        u == AtomfsUmount(q.w, mp, f.at = "umountOld", f.sweep)
    IN  IF q.err # Nil
        THEN [w |-> q.w, err |-> Wrap("Failed checking whether mounted", q.err)]
        ELSE IF u.err # Nil
        THEN [w |-> u.w, err |-> Wrap("atomfs umount failed", u.err)]
        ELSE [w |-> u.w, err |-> Nil]

\* A faulty teardown: it logs the failure of the unmount and succeeds.
TearDownTargetSwallows(w, name, f) ==
    LET mp == Join(scratchPath, <<"roots", name>>)
        q == IsMountpoint(w, mp, f.at = "isMountpoint")
    IN  IF q.err # Nil
        THEN [w |-> q.w, err |-> Wrap("Failed checking whether mounted", q.err)]
        ELSE IF ~q.mounted
        THEN [w |-> q.w, err |-> Nil]
        ELSE [w |-> AtomfsUmount(q.w, mp, f.at = "umountOld", f.sweep).w, err |-> Nil]

TearDownTarget(w, name, f) ==
    LET mp == Join(scratchPath, <<"roots", name>>)
        q == IsMountpoint(w, mp, f.at = "isMountpoint")
        u == AtomfsUmount(q.w, mp, f.at = "umountOld", f.sweep)
    IN  IF q.err # Nil
        THEN [w |-> q.w, err |-> Wrap("Failed checking whether mounted", q.err)]
        ELSE IF ~q.mounted
        THEN [w |-> q.w, err |-> Nil]
        ELSE IF u.err # Nil
        THEN [w |-> u.w, err |-> Wrap("atomfs umount failed", u.err)]
        ELSE [w |-> u.w, err |-> Nil]

-----------------------------------------------------------------------------
(* Strings the external commands print are sequences of characters.        *)

Whitespace == {" ", "\n", "\t", "\r"}

Digits == <<"0", "1", "2", "3", "4", "5", "6", "7", "8", "9">>

RECURSIVE TrimLeft(_)
TrimLeft(s) ==
    IF s # <<>> /\ Head(s) \in Whitespace THEN TrimLeft(Tail(s)) ELSE s

RECURSIVE TrimRight(_)
TrimRight(s) ==
    IF s # <<>> /\ s[Len(s)] \in Whitespace
    THEN TrimRight(SubSeq(s, 1, Len(s) - 1))
    ELSE s

\* strings.TrimSpace
TrimSpace(s) == TrimRight(TrimLeft(s))

DigitValue(c) == (CHOOSE i \in 1..10 : Digits[i] = c) - 1

IsDigit(c) == \E i \in 1..10 : Digits[i] = c

RECURSIVE DecimalValue(_)
DecimalValue(s) ==
    IF s = <<>> THEN 0
    ELSE 10 * DecimalValue(SubSeq(s, 1, Len(s) - 1)) + DigitValue(s[Len(s)])

\* A faulty conversion: it reads the digits s begins with and ignores what
\* follows them.
AtoiOfLeadingDigits(s) ==
    LET n == Cardinality({i \in 1..Len(s) : \A j \in 1..i : IsDigit(s[j])})
    IN  IF n > 0
        THEN [ok |-> TRUE, neg |-> FALSE, val |-> DecimalValue(SubSeq(s, 1, n))]
        ELSE [ok |-> FALSE, neg |-> FALSE, val |-> 0]

\* strconv.Atoi: an optional sign and decimal digits; the sign is kept apart
\* from the magnitude.
Atoi(s) ==
    LET signed == s # <<>> /\ s[1] \in {"+", "-"}
        body == IF signed THEN Tail(s) ELSE s
    IN  IF body # <<>> /\ \A i \in 1..Len(body) : IsDigit(body[i])
        THEN [ok |-> TRUE, neg |-> signed /\ s[1] = "-", val |-> DecimalValue(body)]
        ELSE [ok |-> FALSE, neg |-> FALSE, val |-> 0]

RUNNING == <<"R", "U", "N", "N", "I", "N", "G">>

\* What "lxc-info -H -n <name> -s" may print.
StatusOutputs ==
    {RUNNING, RUNNING \o <<"\n">>, <<" ">> \o RUNNING,
     <<"S", "T", "O", "P", "P", "E", "D", "\n">>, <<"R", "U", "N">>, <<>>}

\* What "lxc-info -H -n <name> -p" may print.
PidOutputs ==
    {<<"4", "2", "\n">>, <<"7">>, <<"-", "1">>, <<"4", "x">>, <<>>}

ExitCodes == {0, 1}

\* The mount table a process of the container sees, by PID: that of the
\* container's namespace for its init, nothing readable for a PID that is
\* no process.
ContainerMounts(image) == {OverlayMount(<<>>, AtomDirs(image), <<"upper">>, <<"work">>)}

\* A faulty path: the mount table of the caller, whatever the PID.
ProcFileOfSelf(pid) == <<"proc", "self", "mountinfo">>

ProcFile(pid) == <<"proc", pid, "mountinfo">>

ProcSelf == ProcFile("self")

\* mount.ParseMounts(mountinfo): the entries of the file, or an error.
ParseMounts(w, file, env) ==
    IF file = ProcSelf
    THEN [w |-> Logged(w, "ParseMounts", file, TRUE), mounts |-> w.mounts, err |-> Nil]
    ELSE IF file = ProcFile("42")
    THEN [w |-> Logged(w, "ParseMounts", file, TRUE), mounts |-> env.ctable, err |-> Nil]
    ELSE [w |-> Logged(w, "ParseMounts", file, FALSE), mounts |-> {}, err |-> <<"open">>]

\* Mount.GetOverlayDirs: the lower directories of an overlay.
GetOverlayDirs(m) ==
    IF m.FSType # "overlay" THEN [dirs |-> <<>>, err |-> <<"not an overlayfs">>]
    ELSE IF m.Lower = <<>> THEN [dirs |-> <<>>, err |-> <<"no lowerdirs found">>]
    ELSE [dirs |-> m.Lower, err |-> Nil]

\* A faulty extraction: the hash is taken from the last lower directory.
getHashFromOverlayOfLastDir(w, mountinfo, mountPoint, env) ==
    LET parsed == ParseMounts(w, mountinfo, env)
        got == GetOverlayDirs(FirstAt(parsed.mounts, mountPoint))
    IN  IF parsed.err # Nil
        THEN [w |-> parsed.w, hash |-> "", err |-> parsed.err]
        ELSE IF ~IsMounted(parsed.mounts, mountPoint)
        THEN [w |-> parsed.w, hash |-> "", err |-> Nil]
        ELSE IF got.err # Nil
        THEN [w |-> parsed.w, hash |-> "",
              err |-> Wrap("Failed getting overlay dirs", got.err)]
        ELSE [w |-> parsed.w, hash |-> Base(got.dirs[Len(got.dirs)]), err |-> Nil]

getHashFromOverlay(w, mountinfo, mountPoint, env) ==
    LET parsed == ParseMounts(w, mountinfo, env)
        m == FirstAt(parsed.mounts, mountPoint)
        got == GetOverlayDirs(m)
        firstDir == got.dirs[1]
    IN  IF parsed.err # Nil
        THEN [w |-> parsed.w, hash |-> "", err |-> parsed.err]
        ELSE IF ~IsMounted(parsed.mounts, mountPoint)
        THEN [w |-> parsed.w, hash |-> "", err |-> Nil]
        ELSE IF got.err # Nil
        THEN [w |-> parsed.w, hash |-> "",
              err |-> Wrap("Failed getting overlay dirs", got.err)]
        ELSE [w |-> parsed.w, hash |-> Base(firstDir), err |-> Nil]

\* RunCommandWithRc("lxc-info", "-H", "-n", name, flag)
RunCommandWithRc(w, flag, name, out, rc) ==
    [w EXCEPT !.log = Append(@, Event("lxc-info " \o flag, <<name>>, rc = 0, out))]

\* The answers of the container runtime and the container's mount table.
Envs ==
    [statusOut : StatusOutputs, statusRc : ExitCodes,
     pidOut : PidOutputs, pidRc : ExitCodes,
     ctable : {{}, ContainerMounts(Target("ctr1", "container", "v2"))}]

\* A faulty lookup: it inspects the mountdir SetupTarget mounts at.
fsOnlyMountpointIsMountdir(target) == Join(scratchPath, <<"roots", target.Name>>)

\* Where MountedByHash looks for an fs-only target.
fsOnlyMountpoint(target) == Join(RootDir, <<"mnt", "atom", target.Name>>)

\* A faulty reading of the status probe: the exit code does not count.
NotRunningIgnoresRc(out, rc) == TrimSpace(out) # RUNNING

\* What MountedByHash makes of the status probe.
NotRunning(out, rc) ==
    IF rc # 0 THEN TRUE ELSE TrimSpace(out) # RUNNING

MountedByHash(w, target, env) ==
    LET w1 == RunCommandWithRc(w, "-s", target.Name, env.statusOut, env.statusRc)
        w2 == RunCommandWithRc(w1, "-p", target.Name, env.pidOut, env.pidRc)
        trimmed == TrimSpace(env.pidOut)
        pid == Atoi(trimmed)
    IN  CASE target.ServiceType = "hostfs" ->
               getHashFromOverlay(w, ProcSelf, RootDir, env)
          [] target.ServiceType = "fs-only" ->
               getHashFromOverlay(w, ProcSelf, fsOnlyMountpoint(target), env)
          [] target.ServiceType = "container" ->
               IF NotRunning(env.statusOut, env.statusRc)
               THEN [w |-> w1, hash |-> "", err |-> Nil]
               ELSE IF env.pidRc # 0
               THEN [w |-> w2, hash |-> "", err |-> Nil]
               ELSE IF ~pid.ok
               THEN [w |-> w2, hash |-> "", err |-> <<"couldn't get pid", "atoi">>]
               ELSE getHashFromOverlay(w2,
                        ProcFile((IF pid.neg THEN "-" ELSE "") \o ToString(pid.val)),
                        <<>>, env)
          [] OTHER ->
               [w |-> w, hash |-> "", err |-> <<"couldn't determine mountpoint">>]

-----------------------------------------------------------------------------
(* The state machine: callers invoke the methods one at a time.            *)

Failed(log) == SelectSeq(log, LAMBDA e : ~e.ok)

\* The record of the call that ended last: what was called on what kind of
\* target, the first operation of it that failed, whether more than that
\* one failed, whether it unmounted something, and what it returned.
Result(op, t, r, hash, cleanup) ==
    [op |-> op, name |-> t.Name, st |-> t.ServiceType,
     at |-> IF Failed(r.w.log) = <<>> THEN "none" ELSE Failed(r.w.log)[1].op,
     more |-> Len(Failed(r.w.log)) > 1,
     unmounted |-> \E i \in 1..Len(r.w.log) :
                      r.w.log[i].op \in {"atomfs.Umount", "unix.Unmount"} /\ r.w.log[i].ok,
     ok |-> r.err = Nil, hash |-> hash, kind |-> cleanup.kind]

NoTarget == Target("", "", "")

Taken == UNION {{c.ro, c.work, c.upper} : c \in held}

Here == World(mounts, dirs, Taken)

TempDirs(d) == {p \in d : Len(p) = 2 /\ p[1] = "scratch" /\ p[2] \notin {"roots", "atomfs"}}

\* The world after a call becomes the state.
Becomes(w) ==
    /\ Cardinality(w.mounts) <= MaxMounts
    /\ Cardinality(TempDirs(w.dirs)) <= MaxTmp
    /\ mounts' = w.mounts
    /\ dirs' = w.dirs

\* A caller keeps the cleanup action of a call that succeeded while it has
\* room for one.
Keep(r) ==
    held' = IF r.err = Nil /\ Cardinality(held) < MaxHeld
            THEN held \cup {r.cleanup}
            ELSE held

\* The lower directories of a read-only mount are the engine's own atoms,
\* which the mount table here does not hold: a sweep changes nothing where
\* only read-only mounts are unmounted by the engine.
MountFailures ==
    {f \in Failures : /\ f.at \in {"none", "ensure", "build", "molMount"}
                      /\ ~f.umountRo /\ ~f.umountOverlay /\ ~f.sweep}

WriteableFailures ==
    {f \in Failures : /\ f.at \in {"none", "mkRo", "ensure", "build", "molMount",
                                     "mkWork", "mkUpper", "overlay"}
                      /\ ~f.umountOverlay /\ ~f.sweep}

SetupFailures == {f \in Failures : ~f.umountOverlay /\ ~f.sweep}

TearDownFailures ==
    {f \in Failures : /\ f.at \in {"none", "isMountpoint", "umountOld"}
                      /\ ~f.umountRo /\ ~f.umountOverlay /\ ~f.sweep}

\* The failures of the lifecycle calls with an engine that may sweep the
\* lower directory of the overlay it takes off a mountdir.
SweepingSetupFailures == {f \in Failures : ~f.umountOverlay}

SweepingTearDownFailures ==
    {f \in Failures : /\ f.at \in {"none", "isMountpoint", "umountOld"}
                      /\ ~f.umountRo /\ ~f.umountOverlay}

CleanupFailures == {f \in Failures : f.at = "none" /\ ~f.sweep}

\* The mount table of the caller is what MountedByHash reads for a target
\* that is no container; the runtime's answers matter for a container.
NoEnv ==
    [statusOut |-> <<>>, statusRc |-> 1, pidOut |-> <<>>, pidRc |-> 1, ctable |-> {}]

EnvsOf(t) == IF t.ServiceType = "container" THEN Envs ELSE {NoEnv}

\* The callers that call SetupTarget at the same time, and where such a
\* call is: pc is the step it takes next; mounted and depth are what its
\* IsMountpoint found and how many mounts were at the mountdir then; un is
\* how its unmount of the stale mount went; seen and unat are the numbers
\* of mounts made at the mountdir when it looked and when it unmounted; ok
\* is whether it has returned no error; n counts the calls of the caller.
Procs == {1, 2}

Idle ==
    [pc |-> "idle", mounted |-> FALSE, depth |-> 0, un |-> "none",
     seen |-> 0, unat |-> 0, ok |-> TRUE, n |-> 0]

Init ==
    /\ mounts = {}
    /\ dirs = {RootDir, zotPath, scratchPath}
                \cup UNION {Prefixes(AtomDir(t.Name)) : t \in DirectTargets}
    /\ held = {}
    /\ last = Result("init", NoTarget, [err |-> Nil, w |-> Here], "", NoopCleanup)
    /\ calls = [p \in Procs |-> Idle]
    /\ made = 0

\* The bounds on the callers that mount for themselves.
Direct(w) ==
    /\ Cardinality(w.mounts) <= MaxDirectMounts
    /\ Cardinality(TempDirs(w.dirs)) <= MaxDirectTmp

DoMountWriteable ==
    \E t \in DirectTargets : \E f \in WriteableFailures :
        LET r == MountWriteable(Here, t, AtomDir(t.Name), f)
        IN  /\ Direct(r.w)
            /\ Becomes(r.w)
            /\ Keep(r)
            /\ UNCHANGED <<calls, made>>
            /\ last' = Result("MountWriteable", t, r, "", r.cleanup)

\* A caller invokes a cleanup action it holds.
DoCleanup ==
    \E c \in held : \E f \in CleanupFailures :
        LET w == RunCleanup(Here, c, f)
        IN  /\ Becomes(w)
            /\ held' = held
            /\ UNCHANGED <<calls, made>>
            /\ last' = Result("cleanup", NoTarget, [err |-> Nil, w |-> w], "", c)

\* A caller drops a cleanup action it holds.
DoForget ==
    \E c \in held :
        /\ held' = held \ {c}
        /\ UNCHANGED <<mounts, dirs>>
        /\ UNCHANGED <<calls, made>>
        /\ last' = Result("forget", NoTarget, [err |-> Nil, w |-> Here], "", c)

\* The runtime setup mounts a target at <RootDir>/mnt/atom/<name> and lets
\* the cleanup action go.
DoRuntimeMount ==
    \E t \in DirectTargets : \E f \in MountFailures :
        LET r == Mount(Here, t, AtomDir(t.Name), f)
        IN  /\ Becomes(r.w)
            /\ held' = held
            /\ UNCHANGED <<calls, made>>
            /\ last' = Result("Mount", t, r, "", r.cleanup)

DoSetupTarget ==
    \E t \in LifecycleTargets : \E f \in SetupFailures :
        LET r == SetupTarget(Here, t, f)
        IN  /\ Becomes(r.w)
            /\ held' = held
            /\ UNCHANGED <<calls, made>>
            /\ last' = Result("SetupTarget", t, r, "", NoopCleanup)

DoTearDownTarget ==
    \E name \in Names : \E f \in TearDownFailures :
        LET r == TearDownTarget(Here, name, f)
        IN  /\ Becomes(r.w)
            /\ held' = held
            /\ UNCHANGED <<calls, made>>
            /\ last' = Result("TearDownTarget", Target(name, "", ""), r, "",
                              NoopCleanup)

\* MountedByHash of a target mounted in the caller's namespace.
DoMountedByHash ==
    \E t \in Targets \ {Target("ctr1", "container", "v1")} :
        LET r == MountedByHash(Here, t, NoEnv)
        IN  /\ UNCHANGED <<mounts, dirs, held>>
            /\ UNCHANGED <<calls, made>>
            /\ last' = Result("MountedByHash", t, r, r.hash, NoopCleanup)

\* MountedByHash of any target under any answers of the container runtime.
DoProbe ==
    \E t \in Targets : \E env \in EnvsOf(t) :
        LET r == MountedByHash(Here, t, env)
        IN  /\ UNCHANGED <<mounts, dirs, held>>
            /\ UNCHANGED <<calls, made>>
            /\ last' = Result("MountedByHash", t, r, r.hash, NoopCleanup)

\* The lifecycle calls with an engine that may sweep.
DoSetupSweeping ==
    \E t \in LifecycleTargets : \E f \in SweepingSetupFailures :
        LET r == SetupTarget(Here, t, f)
        IN  /\ Becomes(r.w)
            /\ held' = held
            /\ UNCHANGED <<calls, made>>
            /\ last' = Result("SetupTarget", t, r, "", NoopCleanup)

DoTearDownSweeping ==
    \E name \in Names : \E f \in SweepingTearDownFailures :
        LET r == TearDownTarget(Here, name, f)
        IN  /\ Becomes(r.w)
            /\ held' = held
            /\ UNCHANGED <<calls, made>>
            /\ last' = Result("TearDownTarget", Target(name, "", ""), r, "",
                              NoopCleanup)

\* The lifecycle of the targets, and the mounts of the runtime setup at
\* <RootDir>/mnt/atom/<name>.
Next ==
    \/ DoSetupTarget
    \/ DoTearDownTarget
    \/ DoMountedByHash
    \/ DoRuntimeMount

Spec == Init /\ [][Next]_vars

\* Callers that mount writable for themselves and hold the cleanup actions.
NextMount ==
    \/ DoMountWriteable
    \/ DoCleanup
    \/ DoForget

SpecMount == Init /\ [][NextMount]_vars

\* Hash lookups over the lifecycle.
NextProbe ==
    \/ DoProbe
    \/ DoSetupTarget
    \/ DoTearDownTarget

SpecProbe == Init /\ [][NextProbe]_vars

\* Two callers call SetupTarget for one target with nothing between them:
\* SetupTarget takes no lock, and each of its calls to the OS and to the
\* engine is a step of its own.
RaceTarget == Target("svc1", "fs-only", "v1")

RaceMountdir == Join(scratchPath, <<"roots", RaceTarget.Name>>)

NoFailure ==
    [at |-> "none", umountRo |-> FALSE, umountOverlay |-> FALSE, sweep |-> FALSE]

InProgress(p) == calls[p].pc \in {"check", "unmount", "ensure", "mount"}

\* The caller p enters SetupTarget.
BeginSetupTarget(p) ==
    /\ calls[p].pc \in {"idle", "done"}
    /\ calls[p].n < MaxRaceCalls
    /\ calls' = [calls EXCEPT ![p] = [Idle EXCEPT !.pc = "check", !.n = calls[p].n + 1]]
    /\ UNCHANGED <<mounts, dirs, held, last, made>>

\* mounted, err := IsMountpoint(mp)
StepIsMountpoint(p) ==
    LET q == IsMountpoint(Here, RaceMountdir, FALSE)
    IN  /\ calls[p].pc = "check"
        /\ calls' = [calls EXCEPT ![p].pc = IF q.mounted THEN "unmount" ELSE "ensure",
                                  ![p].mounted = q.mounted,
                                  ![p].depth = Cardinality(MountsAt(mounts, RaceMountdir)),
                                  ![p].seen = made]
        /\ UNCHANGED <<mounts, dirs, held, last, made>>

\* A faulty step: the stale mount is replaced in one step, under a lock.
StepReplaceLocked(p) ==
    LET u == UnmountStale(Here, RaceMountdir, TRUE, NoFailure)
        r == MountByServiceType(EnsureDir(u.w, RaceMountdir, FALSE).w,
                                RaceTarget, RaceMountdir, NoFailure)
    IN  /\ calls[p].pc = "unmount"
        /\ mounts' = r.w.mounts
        /\ dirs' = r.w.dirs
        /\ made' = made + 1
        /\ calls' = [calls EXCEPT ![p].pc = "done", ![p].un = "ok", ![p].unat = made]
        /\ UNCHANGED <<held, last>>

\* A faulty step: the failure of the unmount is dropped.
StepUnmountStaleSwallows(p) ==
    LET u == UnmountStale(Here, RaceMountdir, TRUE, NoFailure)
    IN  /\ calls[p].pc = "unmount"
        /\ mounts' = u.w.mounts
        /\ calls' = [calls EXCEPT ![p].pc = "ensure",
                                  ![p].un = IF u.err = Nil THEN "ok" ELSE "failed",
                                  ![p].unat = made]
        /\ UNCHANGED <<dirs, held, last, made>>

\* if mounted { err := atomfs.Umount(mp); if err != nil { return err } }
StepUnmountStale(p) ==
    LET u == UnmountStale(Here, RaceMountdir, TRUE, NoFailure)
    IN  /\ calls[p].pc = "unmount"
        /\ mounts' = u.w.mounts
        /\ calls' = [calls EXCEPT ![p].pc = IF u.err = Nil THEN "ensure" ELSE "done",
                                  ![p].un = IF u.err = Nil THEN "ok" ELSE "failed",
                                  ![p].unat = made,
                                  ![p].ok = u.err = Nil]
        /\ UNCHANGED <<dirs, held, last, made>>

\* err = EnsureDir(mp)
StepEnsureDir(p) ==
    LET e == EnsureDir(Here, RaceMountdir, FALSE)
    IN  /\ calls[p].pc = "ensure"
        /\ dirs' = e.w.dirs
        /\ calls' = [calls EXCEPT ![p].pc = "mount"]
        /\ UNCHANGED <<mounts, held, last, made>>

\* The mount step, and the return of SetupTarget.
StepMount(p) ==
    LET r == MountByServiceType(Here, RaceTarget, RaceMountdir, NoFailure)
    IN  /\ calls[p].pc = "mount"
        /\ mounts' = r.w.mounts
        /\ dirs' = r.w.dirs
        /\ made' = made + 1
        /\ calls' = [calls EXCEPT ![p].pc = "done", ![p].ok = r.err = Nil]
        /\ UNCHANGED <<held, last>>

\* The next step of the call of p.
Step(p) ==
    \/ StepIsMountpoint(p)
    \/ StepUnmountStale(p)
    \/ StepEnsureDir(p)
    \/ StepMount(p)

NextRace ==
    \/ \E p \in Procs : BeginSetupTarget(p)
    \/ \E p \in Procs : StepIsMountpoint(p)
    \/ \E p \in Procs : StepUnmountStale(p)
    \/ \E p \in Procs : StepEnsureDir(p)
    \/ \E p \in Procs : StepMount(p)

SpecRace == Init /\ [][NextRace]_vars

\* The lifecycle of the targets over an engine whose unmount may or may
\* not sweep the lower directories left unused.
NextLeak ==
    \/ DoSetupSweeping
    \/ DoTearDownSweeping

SpecLeak == Init /\ [][NextLeak]_vars

\* Lookups in mount tables as a host may have them: overlays of one, two
\* and three lower directories, a mount that is no overlay, mounts one over
\* the other at one path.
Cache(digest) == <<"cache", digest>>

Entry(target, fstype, lowers) ==
    [Target |-> target, FSType |-> fstype, Lower |-> lowers,
     Upper |-> <<"up">>, Work |-> <<"wk">>, Level |-> 1]

Entries ==
    {Entry(<<"mnt", "x">>, "overlay", <<Cache("abc123"), Cache("def456")>>),
     Entry(<<"mnt", "x">>, "overlay",
           <<Cache("fed789"), Cache("abc123"), Cache("def456")>>),
     Entry(<<"mnt", "x">>, "overlay", <<Cache("def456")>>),
     Entry(<<"mnt", "x">>, "ext4", <<>>),
     Entry(RootDir, "overlay", <<Cache("abc123")>>),
     Entry(AtomDir("svc1"), "overlay", <<Cache("def456"), Cache("abc123")>>),
     Entry(<<>>, "overlay", <<Cache("fed789")>>)}

\* The table after the entries of s were mounted in the order of s.
RECURSIVE TableOf(_)
TableOf(s) ==
    IF s = <<>> THEN {}
    ELSE Mounted(TableOf(SubSeq(s, 1, Len(s) - 1)), s[Len(s)])

Tables == {TableOf(s) : s \in UNION {[1..n -> Entries] : n \in 0..MaxEntries}}

QueryPaths == {<<"mnt", "x">>, <<"mnt", "y">>, RootDir, AtomDir("svc1"), <<>>}

InitTable ==
    /\ mounts \in Tables
    /\ dirs = {RootDir, zotPath, scratchPath}
    /\ held = {}
    /\ last = Result("init", NoTarget, [err |-> Nil, w |-> Here], "", NoopCleanup)
    /\ calls = [p \in Procs |-> Idle]
    /\ made = 0

\* getHashFromOverlay of the caller's own mount table at a path.
DoGetHash ==
    \E path \in QueryPaths :
        LET r == getHashFromOverlay(Here, ProcSelf, path, NoEnv)
        IN  /\ UNCHANGED <<mounts, dirs, held>>
            /\ UNCHANGED <<calls, made>>
            /\ last' = Result("getHashFromOverlay", Target(Base(path), "", ""),
                              r, r.hash, NoopCleanup)

NextTable ==
    \/ DoGetHash
    \/ DoProbe

SpecTable == InitTable /\ [][NextTable]_vars

-----------------------------------------------------------------------------
(* The claims.  A claim about a method is stated of every call of it, with *)
(* every input, from every state the callers can reach.                    *)

Calls(log) == [i \in 1..Len(log) |-> <<log[i].op, log[i].path>>]

UnmountFailed(log) ==
    \E i \in 1..Len(log) : log[i].op \in {"atomfs.Umount", "unix.Unmount"} /\ ~log[i].ok

\* C1, as stated: a MountWriteable that fails leaves the scratch directories
\* and the mounts as they were before the call.
C1_RollbackComplete ==
    \A t \in DirectTargets : \A f \in WriteableFailures :
        LET r == MountWriteable(Here, t, AtomDir(t.Name), f)
        IN  r.err # Nil => r.w.dirs = dirs /\ r.w.mounts = mounts

\* C1, amended: a MountWriteable that fails leaves the scratch directories
\* and the mounts as they were before the call unless the unmount of the
\* read-only base fails while unwinding; then the read-only mount and the
\* readonly directory under it stay, and nothing else.
C1_RollbackCompleteUnlessUnmountFails ==
    \A t \in DirectTargets : \A f \in WriteableFailures :
        LET r == MountWriteable(Here, t, AtomDir(t.Name), f)
        IN  r.err # Nil =>
              IF ~UnmountFailed(r.w.log)
              THEN r.w.dirs = dirs /\ r.w.mounts = mounts
              ELSE \E ro \in TempDirs(r.w.dirs) \ dirs :
                      /\ r.w.dirs = dirs \cup {ro}
                      /\ mounts \subseteq r.w.mounts
                      /\ \A m \in r.w.mounts \ mounts : m.Target = ro
                      /\ Cardinality(r.w.mounts \ mounts) = 1

\* C1, witness: a MountWriteable failed at its overlay mount, nothing else
\* failed, and no mount and no scratch directory is there.
C1_Witness ==
    /\ last.op = "MountWriteable" /\ ~last.ok
    /\ last.at = "unix.Mount" /\ ~last.more
    /\ mounts = {} /\ TempDirs(dirs) = {}

\* C2, as stated: the cleanup action MountWriteable returns is never nil,
\* and when the overlay mount fails it comes with a wrapped error.
C2_CleanupCallable ==
    \A t \in DirectTargets : \A f \in WriteableFailures :
        LET r == MountWriteable(Here, t, AtomDir(t.Name), f)
        IN  /\ r.cleanup.kind # "nil"
            /\ r.err # Nil => Len(r.err) > 1

CleanupOrder(c) ==
    <<<<"unix.Unmount", c.mp>>, <<"atomfs.Umount", c.ro>>, <<"os.RemoveAll", c.work>>,
      <<"os.RemoveAll", c.upper>>, <<"os.Remove", c.ro>>>>

NoneRemains(c, w) ==
    /\ ~\E m \in w.mounts : m.Target = c.ro \/ (m.Target = c.mp /\ m.Lower = <<c.ro>>)
    /\ w.dirs \cap {c.ro, c.work, c.upper} = {}

\* What a successful MountWriteable made is all there: its cleanup action
\* has not run.
Untouched(c) ==
    /\ {c.ro, c.work, c.upper} \subseteq dirs
    /\ \E m \in mounts : m.Target = c.ro
    /\ \E m \in mounts : m.Target = c.mp /\ m.Lower = <<c.ro>>

Mountdir(name) == Join(scratchPath, <<"roots", name>>)

\* C4: at most one mount is at the mountdir of a target after any sequence
\* of SetupTarget and TearDownTarget calls, and exactly one after two
\* successive successful SetupTarget calls for the target.
C4_SetupReplaces ==
    /\ \A name \in Names : Cardinality(MountsAt(mounts, Mountdir(name))) <= 1
    /\ \A t \in LifecycleTargets :
          \A r1 \in {SetupTarget(Here, t, f1) : f1 \in SetupFailures} :
              r1.err = Nil =>
                \A f2 \in SetupFailures :
                    LET r2 == SetupTarget(r1.w, t, f2)
                    IN  r2.err = Nil =>
                          Cardinality(MountsAt(r2.w.mounts, Mountdir(t.Name))) = 1

\* C4, witness: a SetupTarget unmounted what was mounted at the mountdir
\* and succeeded, and one mount is there.
C4_Witness ==
    /\ last.op = "SetupTarget" /\ last.ok /\ last.unmounted
    /\ Cardinality(MountsAt(mounts, Mountdir(last.name))) = 1

\* C5: a TearDownTarget that finds the mountdir of the name to be no
\* mountpoint succeeds and changes no mount and no directory, whatever
\* unmount would fail; so does the TearDownTarget that follows a successful
\* one.
C5_TearDownIdempotent ==
    \A name \in Names : \A f \in TearDownFailures :
        LET r == TearDownTarget(Here, name, f)
        IN  /\ (~IsMounted(mounts, Mountdir(name)) /\ f.at # "isMountpoint") =>
                  r.err = Nil /\ r.w.mounts = mounts /\ r.w.dirs = dirs
            /\ r.err = Nil =>
                  \A f2 \in TearDownFailures :
                      LET r2 == TearDownTarget(r.w, name, f2)
                      IN  f2.at # "isMountpoint" =>
                            /\ r2.err = Nil
                            /\ r2.w.mounts = r.w.mounts /\ r2.w.dirs = r.w.dirs

\* C5, witness: a TearDownTarget succeeded without unmounting anything
\* while another target stayed mounted.
C5_Witness ==
    /\ last.op = "TearDownTarget" /\ last.ok /\ ~last.unmounted
    /\ ~IsMounted(mounts, Mountdir(last.name))
    /\ mounts # {}

MountStepFailed(r) == r.err # Nil /\ r.err[1] = "Failed mounting"

NoMountLeft(t, r) ==
    /\ ~IsMounted(r.w.mounts, Mountdir(t.Name))
    /\ \A m \in r.w.mounts \ mounts : m.Target \notin TempDirs(r.w.dirs)

\* C6, as stated: a SetupTarget whose mount step fails leaves no mount at
\* the mountdir, no mount of its own at a scratch readonly directory, and
\* none of the scratch directories it created.
C6_NoHalfMount ==
    \A t \in LifecycleTargets : \A f \in SetupFailures :
        LET r == SetupTarget(Here, t, f)
        IN  MountStepFailed(r) =>
              NoMountLeft(t, r) /\ TempDirs(r.w.dirs) = TempDirs(dirs)

\* C6, amended: a SetupTarget whose mount step fails leaves no mount at the
\* mountdir; it leaves no mount of its own at a scratch readonly directory
\* and none of the scratch directories it created unless the unmount of
\* the read-only base fails while unwinding: then that mount and the
\* readonly directory under it stay, and nothing else.
C6_NoHalfMountUnlessUnmountFails ==
    \A t \in LifecycleTargets : \A f \in SetupFailures :
        LET r == SetupTarget(Here, t, f)
        IN  MountStepFailed(r) =>
              /\ ~IsMounted(r.w.mounts, Mountdir(t.Name))
              /\ IF ~f.umountRo \/ f.at \notin {"mkWork", "mkUpper", "overlay"}
                    \/ t.ServiceType # "container"
                 THEN NoMountLeft(t, r) /\ TempDirs(r.w.dirs) = TempDirs(dirs)
                 ELSE \E ro \in TempDirs(r.w.dirs) \ dirs :
                         /\ TempDirs(r.w.dirs) = TempDirs(dirs) \cup {ro}
                         /\ \A m \in r.w.mounts \ mounts : m.Target = ro
                         /\ Cardinality(r.w.mounts \ mounts) = 1

\* C6, witness: the SetupTarget of a container failed at the overlay mount
\* and at nothing else, and no mount and no scratch directory is there.
C6_Witness ==
    /\ last.op = "SetupTarget" /\ ~last.ok /\ last.st = "container"
    /\ last.at = "unix.Mount" /\ ~last.more
    /\ mounts = {} /\ TempDirs(dirs) = {}

\* C7: a TearDownTarget of a mounted mountdir whose unmount fails returns
\* an error and leaves the mount; a TearDownTarget returns no error only
\* when the mountdir was not mounted or the unmount succeeded.
C7_TearDownPropagates ==
    \A name \in Names : \A f \in TearDownFailures :
        LET r == TearDownTarget(Here, name, f)
            mounted == IsMounted(mounts, Mountdir(name))
            unmounted == /\ TopMount(mounts, Mountdir(name)) \notin r.w.mounts
                         /\ r.w.mounts \subseteq mounts
        IN  /\ (mounted /\ f.at = "umountOld") => r.err # Nil /\ r.w.mounts = mounts
            /\ r.err = Nil => ~mounted \/ unmounted

\* C7, witness: a TearDownTarget failed at the unmount and the mountdir is
\* still mounted.
C7_Witness ==
    /\ last.op = "TearDownTarget" /\ ~last.ok /\ last.at = "atomfs.Umount"
    /\ IsMounted(mounts, Mountdir(last.name))

FsOnlySvc1 == {t \in LifecycleTargets : t.Name = "svc1" /\ t.ServiceType = "fs-only"}

TearDownUnmounts(w, name) ==
    \A f \in TearDownFailures :
        LET td == TearDownTarget(w, name, f)
        IN  td.err = Nil => ~IsMounted(td.w.mounts, Mountdir(name))

\* C8, as stated: after a successful SetupTarget of the fs-only target svc1,
\* MountedByHash of the target returns the name of the base layer directory
\* of the mount the setup made, and after TearDownTarget the mountdir is
\* unmounted.
C8_HashOfSetup ==
    \A t \in FsOnlySvc1 : \A f \in SetupFailures :
        LET r == SetupTarget(Here, t, f)
            h == MountedByHash(r.w, t, NoEnv)
        IN  r.err = Nil =>
              /\ h.err = Nil
              /\ h.hash = Base(TopMount(r.w.mounts, Mountdir(t.Name)).Lower[1])
              /\ TearDownUnmounts(r.w, t.Name)

\* C8, amended: after a successful SetupTarget of the fs-only target svc1
\* the base layer directory of the mount at the mountdir is named by the
\* target's content hash; MountedByHash of the target inspects
\* <root>/mnt/atom/svc1, where SetupTarget mounts nothing, and returns what
\* it returned before the setup: the name of the base layer directory of
\* what is mounted there, the empty hash when nothing is; after
\* TearDownTarget the mountdir is unmounted.
C8_HashOfRuntimeMount ==
    \A t \in FsOnlySvc1 : \A f \in SetupFailures :
        LET r == SetupTarget(Here, t, f)
            h == MountedByHash(r.w, t, NoEnv)
            before == MountedByHash(Here, t, NoEnv)
            atom == Join(RootDir, <<"mnt", "atom", t.Name>>)
        IN  r.err = Nil =>
              /\ Base(TopMount(r.w.mounts, Mountdir(t.Name)).Lower[1]) = Digests(t)[1]
              /\ h.err = before.err /\ h.hash = before.hash
              /\ h.err = Nil
              /\ h.hash = IF IsMounted(mounts, atom)
                          THEN Base(FirstAt(mounts, atom).Lower[1])
                          ELSE ""
              /\ TearDownUnmounts(r.w, t.Name)

\* C8, witness: SetupTarget of the fs-only svc1 succeeded while the runtime
\* has another version of it mounted at <root>/mnt/atom/svc1.
C8_Witness ==
    /\ last.op = "SetupTarget" /\ last.ok
    /\ last.name = "svc1" /\ last.st = "fs-only"
    /\ IsMounted(mounts, AtomDir("svc1")) /\ IsMounted(mounts, Mountdir("svc1"))
    /\ FirstAt(mounts, AtomDir("svc1")).Lower # TopMount(mounts, Mountdir("svc1")).Lower

MountStepReached(r) == r.err = Nil \/ MountStepFailed(r)

\* C9: a SetupTarget that reaches its mount step calls MountWriteable at the
\* mountdir when the ServiceType is "container" and Mount at the mountdir
\* for every other ServiceType, whatever the name and the version; the
\* mount a successful one leaves has an upper directory exactly for a
\* container.
C9_StrategyByServiceType ==
    \A t \in Targets : \A f \in SetupFailures :
        LET r == SetupTarget(Here, t, f)
            mp == Mountdir(t.Name)
            atMp == SelectSeq(r.w.log, LAMBDA e : e.op \in {"Mount", "MountWriteable"}
                                                    /\ e.path = mp)
        IN  MountStepReached(r) =>
              /\ Len(atMp) = 1
              /\ atMp[1].op = "MountWriteable" <=> t.ServiceType = "container"
              /\ atMp[1].op = "Mount" <=> t.ServiceType # "container"
              /\ r.err = Nil =>
                    (TopMount(r.w.mounts, mp).Upper # <<>> <=> t.ServiceType = "container")

\* C9, witness: SetupTarget of a container succeeded and an overlay with an
\* upper directory is at its mountdir.
C9_Witness ==
    /\ last.op = "SetupTarget" /\ last.ok /\ last.st = "container"
    /\ IsMounted(mounts, Mountdir(last.name))
    /\ TopMount(mounts, Mountdir(last.name)).Upper # <<>>

\* The output is RUNNING between white space.
SaysRunning(out) ==
    \E a \in 0..Len(out) :
        /\ a + Len(RUNNING) <= Len(out)
        /\ SubSeq(out, a + 1, a + Len(RUNNING)) = RUNNING
        /\ \A i \in 1..Len(out) :
              (i <= a \/ i > a + Len(RUNNING)) => out[i] \in Whitespace

\* C10: MountedByHash of a container returns the empty hash and no error
\* when the status probe exits nonzero or prints anything but RUNNING
\* (trimmed); it then makes the status query and nothing more, no PID query
\* and no read of a mount table.
C10_NotRunningEmpty ==
    \A t \in Targets : \A env \in Envs :
        LET r == MountedByHash(Here, t, env)
        IN  (t.ServiceType = "container"
             /\ (env.statusRc # 0 \/ ~SaysRunning(env.statusOut))) =>
              /\ r.hash = "" /\ r.err = Nil
              /\ Calls(r.w.log) = <<<<"lxc-info -s", <<t.Name>>>>>>

\* C10, witness: MountedByHash of a container whose status probe exited
\* nonzero returned the empty hash and no error while the container's root
\* is mounted.
C10_Witness ==
    /\ last.op = "MountedByHash" /\ last.st = "container"
    /\ last.ok /\ last.hash = "" /\ last.at = "lxc-info -s"
    /\ IsMounted(mounts, Mountdir(last.name))

\* The characters of s that are no white space, as one string.
RECURSIVE Text(_)
Text(s) ==
    IF s = <<>> THEN ""
    ELSE IF s[1] \in Whitespace THEN Text(Tail(s))
    ELSE s[1] \o Text(Tail(s))

\* The mount tables a call read, in the order it read them.
TablesRead(log) ==
    LET reads == SelectSeq(log, LAMBDA e : e.op = "ParseMounts")
    IN  [i \in 1..Len(reads) |-> reads[i].path]

\* The call returned what the table read from file holds at path.
Inspected(r, file, path, env) ==
    LET found == getHashFromOverlay(Here, file, path, env)
    IN  /\ TablesRead(r.w.log) = <<file>>
        /\ r.hash = found.hash /\ r.err = found.err

\* C11: MountedByHash inspects the caller's own mount table at the storage
\* root for hostfs and at <root>/mnt/atom/<name> for fs-only, the table
\* /proc/<pid>/mountinfo at "/" for a running container whose PID query
\* gave a PID, and for every other ServiceType returns an error and the
\* empty hash with nothing run and nothing read.
C11_TableByServiceType ==
    \A t \in Targets : \A env \in EnvsOf(t) :
        LET r == MountedByHash(Here, t, env)
            self == <<"proc", "self", "mountinfo">>
            running == env.statusRc = 0 /\ SaysRunning(env.statusOut)
            hasPid == env.pidRc = 0 /\ env.pidOut \in {<<"4", "2", "\n">>, <<"7">>, <<"-", "1">>}
        IN  CASE t.ServiceType = "hostfs" -> Inspected(r, self, <<"root">>, env)
              [] t.ServiceType = "fs-only" ->
                   Inspected(r, self, <<"root", "mnt", "atom", t.Name>>, env)
              [] t.ServiceType = "container" ->
                   (running /\ hasPid) =>
                       Inspected(r, <<"proc", Text(env.pidOut), "mountinfo">>, <<>>, env)
              [] OTHER -> r.err # Nil /\ r.hash = "" /\ r.w.log = <<>>

\* C11, witness: MountedByHash of a running container returned the hash of
\* the container's root while the caller's own table has another overlay
\* at "/".
C11_Witness ==
    /\ last.op = "MountedByHash" /\ last.st = "container"
    /\ last.ok /\ last.hash = "def456"
    /\ \E m \in mounts : m.Target = <<>> /\ m.Lower = <<Cache("fed789")>>

\* The first entry of the table at a path, as the kernel lists them.
FirstEntry(ms, path) == CHOOSE m \in ms : m.Target = path /\ m.Level = 1

LastComponent(p) == p[Len(p)]

\* C12: getHashFromOverlay returns the last component of the first lower
\* directory of the first entry at the queried path, however many lower
\* directories follow it, and the empty string and no error when the table
\* has no entry at the path.
C12_HashIsFirstLower ==
    \A path \in QueryPaths :
        LET r == getHashFromOverlay(Here, ProcSelf, path, NoEnv)
            none == ~\E m \in mounts : m.Target = path
            first == FirstEntry(mounts, path)
        IN  /\ none => r.hash = "" /\ r.err = Nil
            /\ (~none /\ first.FSType = "overlay" /\ Len(first.Lower) >= 1) =>
                  r.err = Nil /\ r.hash = LastComponent(first.Lower[1])

\* C12, witness: a lookup at /mnt/x returned abc123 from an entry with more
\* lower directories than one.
C12_Witness ==
    /\ last.op = "getHashFromOverlay" /\ last.name = "x"
    /\ last.ok /\ last.hash = "abc123"
    /\ Len(FirstEntry(mounts, <<"mnt", "x">>).Lower) > 1

\* Invoking the cleanup action c in the world w changes nothing there.
CleanupChangesNothing(w, c, g) ==
    LET w2 == RunCleanup(w, c, g)
    IN  w2.mounts = w.mounts /\ w2.dirs = w.dirs

\* C13: Mount never returns a nil cleanup action: it returns a no-op, with
\* nothing mounted, when the creation of the mountpoint or the building of
\* the molecule fails, and otherwise the action that unmounts mountpoint,
\* with a wrapped error when the engine's mount fails; an unmount that
\* fails inside the action is logged, and the action changes nothing then.
C13_MountCleanup ==
    \A t \in DirectTargets : \A f \in MountFailures :
        LET mp == AtomDir(t.Name)
            r == Mount(Here, t, mp, f)
            umounts == SelectSeq(RunCleanup(r.w, r.cleanup, [f EXCEPT !.umountRo = TRUE]).log,
                                 LAMBDA e : e.op = "atomfs.Umount")
        IN  /\ r.cleanup.kind \in {"noop", "umount"}
            /\ f.at \in {"ensure", "build"} =>
                  /\ r.err # Nil /\ r.cleanup.kind = "noop"
                  /\ r.w.mounts = mounts
                  /\ \A g \in CleanupFailures : CleanupChangesNothing(r.w, r.cleanup, g)
            /\ f.at \in {"molMount", "none"} =>
                  /\ r.cleanup.kind = "umount" /\ r.cleanup.mp = mp
                  /\ Len(umounts) = 1 /\ umounts[1].path = mp /\ ~umounts[1].ok
                  /\ \A g \in CleanupFailures :
                        g.umountRo => CleanupChangesNothing(r.w, r.cleanup, g)
            /\ f.at = "molMount" =>
                  /\ Len(r.err) > 1 /\ r.err[1] = "Failed mounting molecule"
                  /\ r.w.mounts = mounts
            /\ f.at = "none" =>
                  /\ r.err = Nil
                  /\ \A g \in CleanupFailures :
                        ~g.umountRo => RunCleanup(r.w, r.cleanup, g).mounts = mounts

\* C13, witness: a Mount failed at the engine's mount and returned the
\* action that unmounts its mountpoint.
C13_Witness ==
    /\ last.op = "Mount" /\ ~last.ok
    /\ last.at = "mol.Mount" /\ last.kind = "umount"

\* The paths of the events of the operations ops in a log.
PathsOf(log, ops) == {log[i].path : i \in {j \in 1..Len(log) : log[j].op \in ops}}

\* C14: TargetMountdir succeeds, changes nothing, returns
\* <scratch>/roots/<target.Name> whatever is mounted, and that is the path
\* where SetupTarget of the target mounts and TearDownTarget of its name
\* unmounts.
C14_TargetMountdirPure ==
    \A t \in LifecycleTargets :
        LET d == TargetMountdir(Here, t)
        IN  /\ d.err = Nil /\ d.w = Here
            /\ d.path = <<"scratch", "roots", t.Name>>
            /\ TargetMountdir(World({}, dirs, {}), t).path = d.path
            /\ \A f \in SetupFailures :
                  LET r == SetupTarget(Here, t, f)
                      called == PathsOf(r.w.log, {"Mount", "MountWriteable"})
                  IN  /\ called \ TempDirs(called) \subseteq {d.path}
                      /\ r.err = Nil =>
                            /\ IsMounted(r.w.mounts, d.path)
                            /\ \A m \in r.w.mounts \ mounts :
                                  m.Target = d.path \/ m.Target \in TempDirs(r.w.dirs)
            /\ \A f \in TearDownFailures :
                  LET r == TearDownTarget(Here, t.Name, f)
                  IN  /\ PathsOf(r.w.log, {"atomfs.Umount"}) \subseteq {d.path}
                      /\ \A m \in mounts \ r.w.mounts :
                            m.Target = d.path \/ m.Target \in TempDirs(dirs)
                      /\ (r.err = Nil /\ IsMounted(mounts, d.path)) =>
                            /\ TopMount(mounts, d.path) \notin r.w.mounts
                            /\ r.w.mounts \subseteq mounts

\* C14, witness: a TearDownTarget unmounted the path TargetMountdir gives
\* for its name, and nothing is mounted there.
C14_Witness ==
    /\ last.op = "TearDownTarget" /\ last.ok /\ last.unmounted
    /\ ~IsMounted(mounts, TargetMountdir(Here, Target(last.name, "", "")).path)

\* C15: SetupTarget is not serialized: a call in progress can take its next
\* step whatever the other call is doing, so the steps of two calls come in
\* any order; and the unmount step of a call that takes the one mount off
\* the mountdir leaves the mountdir unmounted with that call still in
\* progress, before its EnsureDir.
C15_NotSerialized ==
    /\ [](\A p \in Procs : InProgress(p) => ENABLED Step(p))
    /\ [][\A p \in Procs :
            (/\ calls[p].pc = "unmount" /\ calls'[p] # calls[p]
             /\ Cardinality(MountsAt(mounts, RaceMountdir)) = 1) =>
               /\ ~IsMounted(mounts', RaceMountdir)
               /\ calls'[p].pc = "ensure"]_vars

\* C15, witness: two calls for the mounted target are in progress, both
\* found it mounted, one has unmounted it and has not mounted yet, the
\* other is about to unmount, and nothing is mounted at the mountdir.
C15_Witness ==
    \E p \in Procs : \E q \in Procs \ {p} :
        /\ calls[p].mounted /\ calls[p].un = "ok" /\ calls[p].pc \in {"ensure", "mount"}
        /\ calls[q].mounted /\ calls[q].pc = "unmount"
        /\ ~IsMounted(mounts, RaceMountdir)

\* Both calls looked at the mountdir before either of them mounted there.
LookedTogether(p, q) ==
    /\ calls[p].pc # "idle" /\ calls[q].pc # "idle"
    /\ calls[p].pc # "check" /\ calls[q].pc # "check"
    /\ calls[p].seen = calls[q].seen

Errored(p) == calls[p].pc = "done" /\ ~calls[p].ok

\* C20, as stated: when two interleaved calls both find the mountdir
\* mounted, at most one of their unmounts succeeds and the other call
\* returns an error.
C20_OneUnmountWins ==
    \A p \in Procs : \A q \in Procs \ {p} :
        (LookedTogether(p, q) /\ calls[p].mounted /\ calls[q].mounted) =>
            /\ ~(calls[p].un = "ok" /\ calls[q].un = "ok")
            /\ calls[p].un = "failed" => Errored(p)

\* C20, amended: when two interleaved calls both find one mount at the
\* mountdir and both unmount before either has mounted, exactly one of the
\* unmounts succeeds and the other call returns an error; an unmount that
\* comes after the other call's mount succeeds too and takes that mount
\* off.  Two calls that both find the mountdir not mounted both mount, and
\* two mounts are stacked there.
C20_OneUnmountWinsBeforeMount ==
    \A p \in Procs : \A q \in Procs \ {p} :
        LookedTogether(p, q) =>
            /\ (/\ calls[p].mounted /\ calls[q].mounted
                /\ calls[p].depth = 1 /\ calls[q].depth = 1
                /\ calls[p].un # "none" /\ calls[q].un # "none"
                /\ calls[p].unat = calls[p].seen /\ calls[q].unat = calls[q].seen) =>
                  /\ (calls[p].un = "ok") # (calls[q].un = "ok")
                  /\ calls[p].un = "failed" => Errored(p)
            /\ (/\ calls[p].mounted /\ calls[p].un = "ok"
                /\ calls[p].unat > calls[p].seen) => calls[p].ok
            /\ (/\ ~calls[p].mounted /\ ~calls[q].mounted
                /\ calls[p].pc = "done" /\ calls[q].pc = "done") =>
                  Cardinality(MountsAt(mounts, RaceMountdir)) >= 2

\* C20, witness: two calls both found the mountdir not mounted, both
\* mounted, and two mounts are stacked there.
C20_Witness ==
    /\ \A p \in Procs : calls[p].pc = "done" /\ calls[p].ok /\ ~calls[p].mounted
    /\ calls[1].seen = calls[2].seen
    /\ Cardinality(MountsAt(mounts, RaceMountdir)) = 2

\* C17: a SetupTarget that finds the mountdir mounted and whose unmount of
\* it fails returns an error, having called nothing but IsMountpoint and
\* atomfs.Umount: no mount and no directory changes, and the mount that was
\* there is still the only one at the mountdir.
C17_StaleUnmountFails ==
    \A t \in LifecycleTargets : \A f \in SetupFailures :
        (IsMounted(mounts, Mountdir(t.Name)) /\ f.at = "umountOld") =>
            LET r == SetupTarget(Here, t, f)
            IN  /\ r.err # Nil
                /\ Calls(r.w.log) = <<<<"IsMountpoint", Mountdir(t.Name)>>,
                                      <<"atomfs.Umount", Mountdir(t.Name)>>>>
                /\ r.w.mounts = mounts /\ r.w.dirs = dirs
                /\ Cardinality(MountsAt(r.w.mounts, Mountdir(t.Name))) = 1

\* C17, witness: a SetupTarget failed at its unmount of the mountdir, and
\* one mount is at that mountdir.
C17_Witness ==
    /\ last.op = "SetupTarget" /\ ~last.ok /\ last.at = "atomfs.Umount"
    /\ Cardinality(MountsAt(mounts, Mountdir(last.name))) = 1

\* C16: the cleanup action of a successful Mount or MountWriteable is
\* idempotent: its second invocation leaves the mounts and the directories
\* as its first invocation left them, whatever was mounted at mountpoint
\* before the call, when the unmounts that fail in one invocation fail in
\* the other.
C16_CleanupIdempotent ==
    \A t \in DirectTargets :
        \A r \in {Mount(Here, t, AtomDir(t.Name), NoFailure),
                  MountWriteable(Here, t, AtomDir(t.Name), NoFailure)} :
            r.err = Nil =>
                \A g \in CleanupFailures :
                    CleanupChangesNothing(RunCleanup(r.w, r.cleanup, g), r.cleanup, g)

\* s is a decimal integer: digits, after a sign or without one.
DecimalInteger(s) ==
    \E k \in {0, 1} :
        /\ Len(s) > k
        /\ k = 1 => s[1] \in {"+", "-"}
        /\ \A i \in (k + 1)..Len(s) : s[i] \in {"0", "1", "2", "3", "4", "5", "6", "7", "8", "9"}

\* What MountedByHash of a running container makes of the PID query: the
\* empty hash and no error when it exits nonzero, the empty hash and an error
\* with nothing read when it exits zero and printed no decimal integer, and
\* else what the table /proc/<pid>/mountinfo holds at "/".
PidQueryDecides(t, env, r) ==
    LET decimal == DecimalInteger(TrimSpace(env.pidOut))
    IN  /\ env.pidRc # 0 =>
              r.hash = "" /\ r.err = Nil /\ TablesRead(r.w.log) = <<>>
        /\ (env.pidRc = 0 /\ ~decimal) =>
              r.hash = "" /\ r.err # Nil /\ TablesRead(r.w.log) = <<>>
        /\ (env.pidRc = 0 /\ decimal) =>
              Inspected(r, <<"proc", Text(env.pidOut), "mountinfo">>, <<>>, env)

\* C18 as stated: MountedByHash of a running container returns an error
\* exactly when the PID query exits zero and its trimmed output is no decimal
\* integer.
C18_ErrorOnlyFromPid ==
    \A t \in Targets : \A env \in EnvsOf(t) :
        (/\ t.ServiceType = "container"
         /\ env.statusRc = 0 /\ SaysRunning(env.statusOut)) =>
            LET r == MountedByHash(Here, t, env)
            IN  /\ PidQueryDecides(t, env, r)
                /\ r.err # Nil <=>
                      (env.pidRc = 0 /\ ~DecimalInteger(TrimSpace(env.pidOut)))

\* C18: MountedByHash of a running container returns the error of the PID
\* conversion exactly when the PID query exits zero and its trimmed output is
\* no decimal integer; with a decimal PID it returns what the inspection of
\* /proc/<pid>/mountinfo at "/" returns, an error of that inspection
\* included.
C18_PidErrorOrInspection ==
    \A t \in Targets : \A env \in EnvsOf(t) :
        (/\ t.ServiceType = "container"
         /\ env.statusRc = 0 /\ SaysRunning(env.statusOut)) =>
            LET r == MountedByHash(Here, t, env)
            IN  /\ PidQueryDecides(t, env, r)
                /\ (r.err # Nil /\ r.err[1] = "couldn't get pid") <=>
                      (env.pidRc = 0 /\ ~DecimalInteger(TrimSpace(env.pidOut)))

\* C18, witness: MountedByHash of a running container returned an error
\* and the empty hash though no command and no read of a table failed.
C18_Witness ==
    /\ last.op = "MountedByHash" /\ last.st = "container"
    /\ ~last.ok /\ last.hash = "" /\ last.at = "none"

\* The mounts at scratch directories: the read-only bases of writable
\* mounts.
BaseMounts(ms) == {m \in ms : m.Target \in TempDirs({m.Target})}

\* What a successful SetupTarget of a container adds: one read-only base
\* mount and three scratch directories.
LeavesBaseAndThree(w) ==
    /\ Cardinality(BaseMounts(w.mounts) \ BaseMounts(mounts)) = 1
    /\ Cardinality(TempDirs(w.dirs) \ TempDirs(dirs)) = 3

Swept(name, f) ==
    IF f.sweep /\ IsMounted(mounts, Mountdir(name))
    THEN LET lower == TopMount(mounts, Mountdir(name)).Lower
         IN  {m \in BaseMounts(mounts) : \E i \in 1..Len(lower) : m.Target = lower[i]}
    ELSE {}

====
